---- MODULE Spec2Model ----
(***************************************************************************)
(* CarbonFootprint Analyzer v2.1 (src/main(2).py): the import handlers,    *)
(* the calculator's history, row conversion and the comparison summary.    *)
(*                                                                         *)
(* Numbers.  A numeric input n stands for the decimal n/50 (15.2 km is     *)
(* 760).  The factors are held in hundredths (0.2 is 20), so a product     *)
(* factor*input is an integer count of 1/5000 kgCO2.  round(x, 2) maps a   *)
(* count of 1/5000 to a count of hundredths.  Every factor is even, so a   *)
(* product is never exactly halfway between two hundredths and the         *)
(* rounding of the model is the rounding of the float computation.  The    *)
(* sums and differences of the display are binary floating point and are   *)
(* modelled as such (see "binary floating point" below).  The built-in     *)
(* sum() over floats depends on the interpreter the program runs under,    *)
(* which the repository does not fix: up to CPython 3.11 it adds from left *)
(* to right, from 3.12 on it carries a compensation term.  The variable    *)
(* interpreter holds which of the two the session runs under.              *)
(* Chart drawing and the status label are presentation and are left out.   *)
(***************************************************************************)
EXTENDS Integers, Sequences, FiniteSets, TLC

VARIABLES history, op, src, result, shown, interpreter

vars == <<history, op, src, result, shown, interpreter>>

\* ------------------------------------------------------------------ bounds
MaxRows == 2
MaxHist == 3
MaxBatch == 3

\* ------------------------------------------------------------------ values
\* A cell of a source: a JSON number, or text.  Text that reads as a number
\* is "numstr" (n as above), text of the shape Y-M-D is "datestr" with
\* n = 10000*Y + 100*M + D, any other text is "str".
Num(n) == [t |-> "num", n |-> n, s |-> ""]
NumStr(n) == [t |-> "numstr", n |-> n, s |-> ""]
DateStr(n) == [t |-> "datestr", n |-> n, s |-> ""]
Str(s) == [t |-> "str", n |-> 0, s |-> s]

Fields == {"date", "diet_type", "energy_kwh", "car_km", "bus_km", "waste_kg", "meals"}
required_fields == {"date", "diet_type", "energy_kwh"}
categories == <<"transport", "diet", "energy", "waste">>

\* FACTORS, in hundredths of kgCO2 per unit
FACTOR_car == 20
FACTOR_bus == 8
FACTOR_energy == 50
FACTOR_waste == 20
FACTORS_diet == [meat |-> 250, vegan |-> 100, mixed |-> 150]

\* one unit of input (the literal defaults 0 and 1 of row.get are 0 and 50)
One == 50

\* ------------------------------------------------------------------ errors
NoErr == [type |-> "none", msg |-> "", arg |-> Str("")]
Err(type, msg, arg) == [type |-> type, msg |-> msg, arg |-> arg]
NoBreakdown == [date |-> 0, transport |-> 0, diet |-> 0, energy |-> 0, waste |-> 0, total |-> 0]

\* ------------------------------------------------------------- conversions
\* round(x, 2): x counts 1/5000, the result counts hundredths (half to even)
Round2(x) ==
    LET q == x \div 50
        r == x % 50
    IN  IF r < 25 THEN q
        ELSE IF r > 25 THEN q + 1
        ELSE IF q % 2 = 0 THEN q ELSE q + 1

\* float(v)
ToFloat(v) ==
    IF v.t \in {"num", "numstr"}
    THEN [ok |-> TRUE, n |-> v.n, err |-> NoErr]
    ELSE [ok |-> FALSE, n |-> 0, err |-> Err("ValueError", "float", v)]

DaysInMonth(y, m) ==
    IF m \in {4, 6, 9, 11} THEN 30
    ELSE IF m = 2
         THEN (IF (y % 4 = 0 /\ y % 100 # 0) \/ y % 400 = 0 THEN 29 ELSE 28)
         ELSE 31

\* datetime.strptime(v, '%Y-%m-%d')
Strptime(v) ==
    IF v.t = "num"
    THEN [ok |-> FALSE, n |-> 0, err |-> Err("TypeError", "strptime", v)]
    ELSE IF v.t # "datestr"
    THEN [ok |-> FALSE, n |-> 0, err |-> Err("ValueError", "strptime", v)]
    ELSE LET y == v.n \div 10000
             m == (v.n \div 100) % 100
             d == v.n % 100
         IN  IF y \in 1..9999 /\ m \in 1..12 /\ d \in 1..DaysInMonth(y, m)
             THEN [ok |-> TRUE, n |-> v.n, err |-> NoErr]
             ELSE [ok |-> FALSE, n |-> 0, err |-> Err("ValueError", "strptime", v)]

\* row[key]
Subscript(row, key) ==
    IF key \in DOMAIN row
    THEN [ok |-> TRUE, v |-> row[key], err |-> NoErr]
    ELSE [ok |-> FALSE, v |-> Str(""), err |-> Err("KeyError", "", Str(key))]

\* row.get(key, default)
Get(row, key, default) == IF key \in DOMAIN row THEN row[key] ELSE default

\* float(row.get(key, default))
FloatGet(row, key, default) == ToFloat(Get(row, key, Num(default)))

\* float(row[key])
FloatSubscript(row, key) ==
    LET c == Subscript(row, key)
    IN  IF c.ok THEN ToFloat(c.v) ELSE [ok |-> FALSE, n |-> 0, err |-> c.err]

\* self.FACTORS['diet'][row['diet_type']]
DietFactor(row) ==
    LET c == Subscript(row, "diet_type")
    IN  IF ~c.ok THEN [ok |-> FALSE, n |-> 0, err |-> c.err]
        ELSE IF c.v.t = "str" /\ c.v.s \in DOMAIN FACTORS_diet
        THEN [ok |-> TRUE, n |-> FACTORS_diet[c.v.s], err |-> NoErr]
        ELSE [ok |-> FALSE, n |-> 0, err |-> Err("KeyError", "", c.v)]

Fail(e) == [ok |-> FALSE, val |-> NoBreakdown, err |-> e]

\* variant: total from the rounded category values
BreakdownTotal_stored(transport, diet, energy, waste) ==
    Round2(50 * (Round2(transport) + Round2(diet) + Round2(energy) + Round2(waste)))

\* variant: the bus term subtracted
TransportSum_minus(car, bus) == car * FACTOR_car - bus * FACTOR_bus

\* the dict literal of _process_row; the arguments count 1/5000
BreakdownTotal(transport, diet, energy, waste) ==
    Round2(transport + diet + energy + waste)

TransportSum(car, bus) == car * FACTOR_car + bus * FACTOR_bus

MakeBreakdown(date, transport, diet, energy, waste) ==
    [date |-> date,
     transport |-> Round2(transport),
     diet |-> Round2(diet),
     energy |-> Round2(energy),
     waste |-> Round2(waste),
     total |-> BreakdownTotal(transport, diet, energy, waste)]

\* the try block of _process_row, statement by statement
ProcessRowBody(row) ==
    LET dk == Subscript(row, "date")
        date == Strptime(dk.v)
        car == FloatGet(row, "car_km", 0)
        bus == FloatGet(row, "bus_km", 0)
        factor == DietFactor(row)
        meals == FloatGet(row, "meals", One)
        kwh == FloatSubscript(row, "energy_kwh")
        kg == FloatGet(row, "waste_kg", 0)
    IN  IF ~dk.ok THEN Fail(dk.err)
        ELSE IF ~date.ok THEN Fail(date.err)
        ELSE IF ~car.ok THEN Fail(car.err)
        ELSE IF ~bus.ok THEN Fail(bus.err)
        ELSE IF ~factor.ok THEN Fail(factor.err)
        ELSE IF ~meals.ok THEN Fail(meals.err)
        ELSE IF ~kwh.ok THEN Fail(kwh.err)
        ELSE IF ~kg.ok THEN Fail(kg.err)
        ELSE [ok |-> TRUE,
              val |-> MakeBreakdown(date.n,
                                    TransportSum(car.n, bus.n),
                                    factor.n * meals.n,
                                    kwh.n * FACTOR_energy,
                                    kg.n * FACTOR_waste),
              err |-> NoErr]

\* except KeyError as e: raise ValueError(f"missing required field: {e}")
ExceptKeyError(r) ==
    IF ~r.ok /\ r.err.type = "KeyError"
    THEN Fail(Err("ValueError", "missing_field", r.err.arg))
    ELSE r

_process_row(row) == ExceptKeyError(ProcessRowBody(row))

\* ----------------------------------------------------------------- sources
\* A source is what a path names: the path, the shape of its text (a
\* JSON array of objects, or CSV text with a header line) and its records.
\* In CSV text a record gives a cell for some columns of the header; a
\* column it leaves out is an empty cell.
NoSource == [filepath |-> <<>>, shape |-> "json", header |-> {}, rows |-> <<>>]

\* A file path is the sequence of its characters.
\* filepath.endswith(suffix)
endswith(filepath, suffix) ==
    /\ Len(suffix) <= Len(filepath)
    /\ SubSeq(filepath, Len(filepath) - Len(suffix) + 1, Len(filepath)) = suffix

DotCsv == <<".", "c", "s", "v">>
DotJson == <<".", "j", "s", "o", "n">>
DotJpg == <<".", "j", "p", "g">>
DotPng == <<".", "p", "n", "g">>

\* the text csv.DictReader yields for a cell
CellText(v) == IF v.t = "num" THEN NumStr(v.n) ELSE v

\* json.load(f) / json.loads(text): the list of objects
JsonLoad(s) == s.rows

\* csv.DictReader(f): one mapping per line, keyed by the header
DictReader(s) ==
    [i \in 1..Len(s.rows) |->
        [f \in s.header |->
            IF f \in DOMAIN s.rows[i] THEN CellText(s.rows[i][f]) ELSE Str("")]]

\* variant: only the first object is looked at
AllItemsHaveRequired_first(data) ==
    data = <<>> \/ required_fields \subseteq DOMAIN data[1]

\* all(required_fields.issubset(item.keys()) for item in data)
AllItemsHaveRequired(data) ==
    \A i \in 1..Len(data) : required_fields \subseteq DOMAIN data[i]

\* DataValidator.validate_json: text that is not JSON fails to load -> False
validate_json(s) == s.shape = "json" /\ AllItemsHaveRequired(JsonLoad(s))

\* DataValidator.validate_csv: JSON text has no such header -> False
validate_csv(s) == s.shape = "csv" /\ required_fields \subseteq s.header

\* -------------------------------------------------------------- calculator
\* for row in ...: data.append(self._process_row(row))
\* calls counts the invocations of _process_row; data is the local list
RECURSIVE ConvertFrom(_, _, _)
LoopStep(rows, i, data, r) ==
    IF r.ok
    THEN ConvertFrom(rows, i + 1, Append(data, r.val))
    ELSE [ok |-> FALSE, data |-> data, err |-> r.err, calls |-> i]

ConvertFrom(rows, i, data) ==
    IF i > Len(rows)
    THEN [ok |-> TRUE, data |-> data, err |-> NoErr, calls |-> i - 1]
    ELSE LoopStep(rows, i, data, _process_row(rows[i]))

ConvertRows(rows) == ConvertFrom(rows, 1, <<>>)

\* CarbonCalculator._update_history
_update_history(h, data) == h \o data

\* variant: the rows converted before a failure are recorded all the same
RecordConverted_partial(h, c) ==
    [history |-> _update_history(h, c.data), ok |-> c.ok,
     data |-> IF c.ok THEN c.data ELSE <<>>, err |-> c.err, calls |-> c.calls]

\* the tail of _calc_json/_calc_csv after the loop, whose outcome is c:
\* self._update_history(data); return data -- or the exception of the loop
RecordConverted(h, c) ==
    IF c.ok
    THEN [history |-> _update_history(h, c.data), ok |-> TRUE,
          data |-> c.data, err |-> NoErr, calls |-> c.calls]
    ELSE [history |-> h, ok |-> FALSE,
          data |-> <<>>, err |-> c.err, calls |-> c.calls]

\* the tail of _calc_json/_calc_csv after validation
ConvertAndRecord(h, rows) == RecordConverted(h, ConvertRows(rows))

Raise(h, e) == [history |-> h, ok |-> FALSE, data |-> <<>>, err |-> e, calls |-> 0]

_calc_json(h, s) ==
    IF ~validate_json(s)
    THEN Raise(h, Err("ValueError", "invalid_json", Str("")))
    ELSE ConvertAndRecord(h, JsonLoad(s))

_calc_csv(h, s) ==
    IF ~validate_csv(s)
    THEN Raise(h, Err("ValueError", "invalid_csv", Str("")))
    ELSE ConvertAndRecord(h, DictReader(s))

calc_from_file(h, s) ==
    IF endswith(s.filepath, DotCsv) THEN _calc_csv(h, s)
    ELSE IF endswith(s.filepath, DotJson) THEN _calc_json(h, s)
    ELSE Raise(h, Err("ValueError", "unsupported", Str("")))

\* ----------------------------------------------------------------- display
\* average_totals, in hundredths of kgCO2
average_totals == [transport |-> 5000, diet |-> 4000, energy |-> 3000, waste |-> 2000]

\* ---- binary floating point
\* The stored category values are the doubles nearest to k/100, and lines
\* 339, 356 and 357 add and subtract them as doubles.  A double is held as
\* [h, d]: its value is h/100 + d * u with u = 2^-59 / 25, so h is the value
\* in hundredths and d the distance of the double from that decimal.  A
\* double in [2^e, 2^(e+1)) is a multiple of 25 * 2^(e+7) units u.
F(h, d) == [h |-> h, d |-> d]
FZero == F(0, 0)

\* the exponents of the doubles of the model: 2^-7 < 0.01, values below 2^14
LeastExponent == -7
GreatestExponent == 13

Doubled(t) == Append(t, 2 * t[Len(t)])
RECURSIVE Pow2Upto(_)
Pow2Upto(n) == IF n = 0 THEN <<1>> ELSE Doubled(Pow2Upto(n - 1))
Pow2Table == Pow2Upto(GreatestExponent + 8)
Pow2(n) == Pow2Table[n + 1]

\* 2^n modulo 25
DoubledMod25(t) == Append(t, (2 * t[Len(t)]) % 25)
RECURSIVE Pow2Mod25Upto(_)
Pow2Mod25Upto(n) == IF n = 0 THEN <<1>> ELSE DoubledMod25(Pow2Mod25Upto(n - 1))
Pow2Mod25Table == Pow2Mod25Upto(50 - LeastExponent)
Pow2Mod25(n) == Pow2Mod25Table[n + 1]

\* the e with 2^e <= h/100 < 2^(e+1), from e upwards
RECURSIVE ExponentFrom(_, _)
ExponentFrom(h, e) ==
    IF 128 * h < 100 * Pow2(e + 8) THEN e ELSE ExponentFrom(h, e + 1)

\* the binary exponent of h/100 + d*u, for h > 0: one less just below a
\* power of two
ExponentAt(h, d, e) == IF 100 * Pow2(e + 7) = 128 * h /\ d < 0 THEN e - 1 ELSE e
Exponent(h, d) == ExponentAt(h, d, ExponentFrom(h, LeastExponent))

\* the multiple of the spacing G nearest to the offset d, which lies rem
\* above the j-th one; at a tie the one with the even mantissa (m + j even)
Nearest(h, d, G, m, j, rem) ==
    F(h, d - rem + (IF 2 * rem > G \/ (2 * rem = G /\ (m + j) % 2 = 1) THEN G ELSE 0))

\* r: the offset of h/100 + d*u from the multiple of G below h/100
OnGrid(h, d, G, r) == Nearest(h, d, G, (r - d) \div (G \div 25), r \div G, r % G)

\* the doubles around h/100 are 25 * 2^(e+7) apart, and h/100 lies
\* 2^(e+7) * (h * 2^(50-e) mod 25) above one of them
RoundAt(h, d, e) ==
    OnGrid(h, d, 25 * Pow2(e + 7), Pow2(e + 7) * ((h * Pow2Mod25(50 - e)) % 25) + d)

\* the double nearest to h/100 + d*u, ties to the even mantissa, for h > 0
RoundPositive(h, d) == RoundAt(h, d, Exponent(h, d))

FNeg(x) == F(-x.h, -x.d)

\* rounding of an exact result to a double; a result within a hundredth of
\* zero is the difference of two near doubles and is exact
RoundDouble(h, d) ==
    IF h = 0 THEN F(0, d)
    ELSE IF h > 0 THEN RoundPositive(h, d)
    ELSE FNeg(RoundPositive(-h, -d))

\* the stored value of a breakdown: the double nearest to k/100
FromHundredths(k) == RoundDouble(k, 0)

\* an int operand (50, 140): exact
FromInt(k) == F(k, 0)

\* x + y and x - y on doubles
FAdd(x, y) == RoundDouble(x.h + y.h, x.d + y.d)
FSub(x, y) == RoundDouble(x.h - y.h, x.d - y.d)

\* x > 0
FPositive(x) == x.h > 0 \/ (x.h = 0 /\ x.d > 0)

\* f"{x:.2f}" without its sign, in hundredths
Fmt2(x) == IF x.h < 0 THEN -x.h ELSE x.h

NoTotals == [transport |-> FZero, diet |-> FZero, energy |-> FZero, waste |-> FZero]

\* what the last operation put on screen; called: _update_display ran,
\* computed: it got past "if not data: return"
NoShow == [called |-> FALSE, computed |-> FALSE, category_totals |-> NoTotals,
           differences |-> NoTotals, total_difference |-> FZero,
           summary |-> <<>>, advice |-> <<>>]

\* the built-in sum() of the two kinds of interpreter
Interpreters == {"sum_plain", "sum_compensated"}

\* |x| and |x| >= |y|
FAbs(x) == IF x.h < 0 \/ (x.h = 0 /\ x.d < 0) THEN FNeg(x) ELSE x
FGeq(x, y) == x.h > y.h \/ (x.h = y.h /\ x.d >= y.d)

\* sum(xs) up to CPython 3.11: from 0, left to right, each addition rounded
RECURSIVE PlainFrom(_, _, _)
PlainFrom(xs, i, acc) ==
    IF i > Len(xs) THEN acc ELSE PlainFrom(xs, i + 1, FAdd(acc, xs[i]))

\* sum(xs) from CPython 3.12 on: the first item is added to the int 0, and
\* from then on each addition t = f + x adds what it lost to c,
\*   c += (f - t) + x  if |f| >= |x|,  c += (x - t) + f  otherwise,
\* and c, when it is not zero, is added to the result at the end
Lost(f, x, t) ==
    IF FGeq(FAbs(f), FAbs(x)) THEN FAdd(FSub(f, t), x) ELSE FAdd(FSub(x, t), f)
Carried(f, c, x, t) == [f |-> t, c |-> FAdd(c, Lost(f, x, t))]
CompensatedAdd(f, c, x) == Carried(f, c, x, FAdd(f, x))
RECURSIVE CompensatedFrom(_, _, _)
CompensatedFrom(xs, i, acc) ==
    IF i > Len(xs) THEN acc
    ELSE CompensatedFrom(xs, i + 1, CompensatedAdd(acc.f, acc.c, xs[i]))
CompensatedEnd(acc) == IF acc.c # FZero THEN FAdd(acc.f, acc.c) ELSE acc.f
CompensatedSum(xs) ==
    IF xs = <<>> THEN FZero
    ELSE CompensatedEnd(CompensatedFrom(xs, 2, [f |-> FAdd(FZero, xs[1]), c |-> FZero]))

\* sum(xs) of a list of floats under the interpreter i
SumUnder(i, xs) == IF i = "sum_plain" THEN PlainFrom(xs, 1, FZero) ELSE CompensatedSum(xs)

\* sum(xs) under the interpreter of the session
Sum(xs) == SumUnder(interpreter, xs)

\* sum(d[cat] for d in data)
SumCat(data, cat) == Sum([i \in 1..Len(data) |-> FromHundredths(data[i][cat])])

\* variant: the first breakdown only
CategoryTotals_first(data) ==
    [cat \in DOMAIN average_totals |-> FromHundredths(data[1][cat])]

CategoryTotals(data) == [cat \in DOMAIN average_totals |-> SumCat(data, cat)]

\* sum(category_totals.values()): in the order of categories
SumValues(m) == Sum(<<m.transport, m.diet, m.energy, m.waste>>)

\* sum(average_totals.values()): ints
SumAverages == average_totals.transport + average_totals.diet
               + average_totals.energy + average_totals.waste

\* {cat: category_totals[cat] - average_totals[cat] for cat in categories}
Differences(category_totals) ==
    [cat \in DOMAIN average_totals |->
        FSub(category_totals[cat], FromInt(average_totals[cat]))]

\* variant: waste left out of the sum of the averages
TotalDifference_nowaste(category_totals) ==
    FSub(SumValues(category_totals),
         FromInt(average_totals.transport + average_totals.diet + average_totals.energy))

\* sum(category_totals.values()) - sum(average_totals.values())
TotalDifference(category_totals) ==
    FSub(SumValues(category_totals), FromInt(SumAverages))

\* variant: diff >= 0
Exceeds_ge(diff) == FPositive(diff) \/ diff = FZero

\* if diff > 0
Exceeds(diff) == FPositive(diff)

\* a line of the dialog; amount is the printed {:.2f} figure in hundredths
Line(kind, cat, amount) == [kind |-> kind, cat |-> cat, amount |-> amount]

\* for cat, diff in differences.items(): one summary line per category, and
\* one advice line for a category above the average
RECURSIVE SummaryFrom(_, _)
SummaryFrom(i, differences) ==
    IF i > Len(categories) THEN <<>>
    ELSE LET cat == categories[i]
             diff == differences[cat]
         IN  <<IF Exceeds(diff) THEN Line("more", cat, Fmt2(diff))
                                ELSE Line("less", cat, Fmt2(FNeg(diff)))>>
             \o SummaryFrom(i + 1, differences)

RECURSIVE AdviceFrom(_, _)
AdviceFrom(i, differences) ==
    IF i > Len(categories) THEN <<>>
    ELSE LET cat == categories[i]
         IN  (IF Exceeds(differences[cat]) THEN <<Line("suggest", cat, 0)>> ELSE <<>>)
             \o AdviceFrom(i + 1, differences)

\* if total_difference > 0: ... else: ...
OverallSummary(total_difference) ==
    IF FPositive(total_difference)
    THEN Line("overall_more", "", Fmt2(total_difference))
    ELSE Line("overall_less", "", Fmt2(FNeg(total_difference)))

OverallAdvice(total_difference) ==
    IF FPositive(total_difference) THEN Line("focus", "", 0) ELSE Line("great", "", 0)

\* the message of messagebox.showinfo("Summary", summary + advice)
Report(category_totals, differences, total_difference) ==
    [called |-> TRUE, computed |-> TRUE,
     category_totals |-> category_totals,
     differences |-> differences,
     total_difference |-> total_difference,
     summary |-> Append(SummaryFrom(1, differences), OverallSummary(total_difference)),
     advice |-> Append(AdviceFrom(1, differences), OverallAdvice(total_difference))]

Compare(category_totals) ==
    Report(category_totals, Differences(category_totals),
           TotalDifference(category_totals))

\* CarbonApp._update_display
_update_display(data) ==
    IF data = <<>>
    THEN [NoShow EXCEPT !.called = TRUE]
    ELSE Compare(CategoryTotals(data))

\* ---------------------------------------------------------------- handlers
\* str.lower() on the letters A-Z; the paths of the model are ASCII
UpperCase == <<"A", "B", "C", "D", "E", "F", "G", "H", "I", "J", "K", "L", "M",
               "N", "O", "P", "Q", "R", "S", "T", "U", "V", "W", "X", "Y", "Z">>
LowerCase == <<"a", "b", "c", "d", "e", "f", "g", "h", "i", "j", "k", "l", "m",
               "n", "o", "p", "q", "r", "s", "t", "u", "v", "w", "x", "y", "z">>
LowerChar(c) ==
    IF \E i \in 1..Len(UpperCase) : UpperCase[i] = c
    THEN LowerCase[CHOOSE i \in 1..Len(UpperCase) : UpperCase[i] = c]
    ELSE c
Lower(filepath) == [i \in 1..Len(filepath) |-> LowerChar(filepath[i])]

\* filepath.lower().endswith(('.jpg', '.png'))
IsImagePath(s) ==
    endswith(Lower(s.filepath), DotJpg) \/ endswith(Lower(s.filepath), DotPng)

Outcome(c, show) ==
    [history |-> c.history, ok |-> c.ok, data |-> c.data, err |-> c.err,
     calls |-> c.calls, shown |-> show]

\* processed_data = [self.calculator._process_row(row) for row in data]
\* self._update_display(processed_data); history is not touched
ShowConverted(h, c) ==
    IF c.ok
    THEN Outcome([history |-> h, ok |-> TRUE, data |-> c.data,
                  err |-> NoErr, calls |-> c.calls],
                 _update_display(c.data))
    ELSE Outcome([history |-> h, ok |-> FALSE, data |-> <<>>,
                  err |-> c.err, calls |-> c.calls], NoShow)

ProcessImageRows(h, rows) == ShowConverted(h, ConvertRows(rows))

\* CarbonApp._process_image: the text read off the image is tried as JSON,
\* then as CSV; every exception ends in the error dialog
_process_image(h, s) ==
    IF s.shape = "json"
    THEN IF ~AllItemsHaveRequired(JsonLoad(s))
         THEN Outcome(Raise(h, Err("ValueError", "invalid_json_image", Str(""))), NoShow)
         ELSE ProcessImageRows(h, JsonLoad(s))
    ELSE IF ~(required_fields \subseteq s.header)
         THEN Outcome(Raise(h, Err("ValueError", "invalid_csv_image", Str(""))), NoShow)
         ELSE ProcessImageRows(h, DictReader(s))

\* data = self.calculator.calc_from_file(filepath); self._update_display(data)
ShowLoaded(c) == Outcome(c, IF c.ok THEN _update_display(c.data) ELSE NoShow)

\* CarbonApp._import_data, after a path was chosen
_import_data(h, s) ==
    IF IsImagePath(s)
    THEN _process_image(h, s)
    ELSE ShowLoaded(calc_from_file(h, s))

\* ------------------------------------------------------------------ inputs
SeqsUpTo(S, n) == UNION {[1..k -> S] : k \in 0..n}

Row3(date, diet, kwh) ==
    ("date" :> date) @@ ("diet_type" :> diet) @@ ("energy_kwh" :> kwh)

\* 2023-08-01,meat,12.5,15.2,3.0,0.3 (the sample of _show_format)
RowSample ==
    Row3(DateStr(20230801), Str("meat"), Num(625))
    @@ ("car_km" :> Num(760)) @@ ("bus_km" :> Num(150)) @@ ("waste_kg" :> Num(15))
\* two vegan meals, car_km and waste_kg of 0.02
RowVegan ==
    Row3(DateStr(20230802), Str("vegan"), Num(0))
    @@ ("meals" :> Num(100)) @@ ("car_km" :> Num(1)) @@ ("waste_kg" :> Num(1))
RowKeto == Row3(DateStr(20230803), Str("keto"), Num(500))
RowBadDate == Row3(Str("08-01"), Str("mixed"), Num(500))
RowNonNumeric == Row3(DateStr(20230804), Str("mixed"), Str("abc"))
RowNoDiet == ("date" :> DateStr(20230805)) @@ ("energy_kwh" :> Num(500))

JsonRows == {RowSample, RowKeto, RowNoDiet}
CsvRows == {RowSample, RowBadDate}
PngRows == {RowSample, RowNoDiet}
JpgRows == {RowSample}

CsvHeader == {"date", "diet_type", "energy_kwh", "car_km", "bus_km", "waste_kg"}

Source(filepath, shape, header, rows) ==
    [filepath |-> filepath, shape |-> shape, header |-> header, rows |-> rows]

\* d.json, d.csv, x.png, x.jpg
JsonPath == <<"d">> \o DotJson
CsvPath == <<"d">> \o DotCsv
PngPath == <<"x">> \o DotPng
JpgPath == <<"x">> \o DotJpg

JsonFiles == {Source(JsonPath, "json", {}, r) : r \in SeqsUpTo(JsonRows, MaxRows)}
CsvFiles == {Source(CsvPath, "csv", CsvHeader, r) : r \in SeqsUpTo(CsvRows, MaxRows)}
Images ==
    {Source(PngPath, "json", {}, r) : r \in SeqsUpTo(PngRows, MaxRows)}
    \cup {Source(JpgPath, "csv", CsvHeader, r) : r \in SeqsUpTo(JpgRows, MaxRows)}
\* two different good rows, a non-numeric value and an empty diet_type cell
\* after a good row, a header without diet_type, text of the other shape,
\* paths in other letter case (x.Png with an object without diet_type,
\* x.JPG, d.Csv, d.JSON) and with other extensions (d.txt, x.jpeg)
OtherFiles ==
    {Source(JsonPath, "json", {}, <<RowSample, RowVegan>>),
     Source(JsonPath, "json", {}, <<RowSample, RowNonNumeric>>),
     Source(CsvPath, "csv", CsvHeader, <<RowSample, RowNoDiet>>),
     Source(CsvPath, "csv", CsvHeader \ {"diet_type"}, <<RowSample>>),
     Source(CsvPath, "json", {}, <<RowSample>>),
     Source(JsonPath, "csv", CsvHeader, <<RowSample>>),
     Source(PngPath, "csv", CsvHeader \ {"diet_type"}, <<RowSample>>),
     Source(<<"x", ".", "P", "n", "g">>, "json", {}, <<RowSample, RowNoDiet>>),
     Source(<<"x", ".", "J", "P", "G">>, "csv", CsvHeader, <<RowSample>>),
     Source(<<"d", ".", "C", "s", "v">>, "csv", CsvHeader, <<RowSample>>),
     Source(<<"d", ".", "J", "S", "O", "N">>, "json", {}, <<RowSample>>),
     Source(<<"d", ".", "t", "x", "t">>, "csv", CsvHeader, <<RowSample>>),
     Source(<<"x", ".", "j", "p", "e", "g">>, "json", {}, <<RowSample>>)}

Sources == JsonFiles \cup CsvFiles \cup Images \cup OtherFiles

\* rows for conversion on its own: every field absent or one of a few values
Absent == [t |-> "absent", n |-> 0, s |-> ""]
RowChoices ==
    [date : {Absent, DateStr(20230801), DateStr(20230230), Str("08-01")},
     diet_type : {Absent, Str("meat"), Str("vegan"), Str("mixed"), Str("keto")},
     energy_kwh : {Absent, Num(625), NumStr(0), Num(-100), Str("abc")},
     car_km : {Absent, Num(1), Num(760), Num(-250)},
     bus_km : {Absent, Num(150)},
     waste_kg : {Absent, Num(1), NumStr(15), Num(-50)},
     meals : {Absent, Num(100), Num(-50)}]
MkRow(c) == [f \in {g \in Fields : c[g] # Absent} |-> c[f]]
Rows == {MkRow(c) : c \in RowChoices}

\* batches for the display on its own: the breakdowns of
\*   half and all of every average (25/20/0/10 and 50/40/30/20),
\*   72.04/39.04/2.90/26.02, whose decimal sum is 140.00,
\*   transport 0.07, 48.09 and 1.84, whose decimal sum is 50.00, with diet
\*   10, 10 and 20
DisplayRow(diet, car, bus, meals, kwh, kg) ==
    Row3(DateStr(20230801), Str(diet), Num(kwh))
    @@ ("car_km" :> Num(car)) @@ ("bus_km" :> Num(bus))
    @@ ("meals" :> Num(meals)) @@ ("waste_kg" :> Num(kg))
DisplayRows ==
    {DisplayRow("meat", 6250, 0, 400, 0, 2500),
     DisplayRow("meat", 12500, 0, 800, 3000, 5000),
     DisplayRow("vegan", 18010, 0, 1952, 290, 6506),
     DisplayRow("vegan", 17, 1, 500, 0, 0),
     DisplayRow("vegan", 12022, 0, 500, 0, 0),
     DisplayRow("vegan", 460, 0, 1000, 0, 0)}
DisplayBreakdowns == {_process_row(r).val : r \in DisplayRows}
Batches == SeqsUpTo(DisplayBreakdowns, MaxBatch)

\* ------------------------------------------------------------------ states
NoResult == [ok |-> TRUE, data |-> <<>>, err |-> NoErr, calls |-> 0]

\* CarbonApp.__init__ / CarbonCalculator.__init__
Init ==
    /\ interpreter \in Interpreters
    /\ history = <<>>
    /\ op = "init"
    /\ src = NoSource
    /\ result = NoResult
    /\ shown = NoShow

\* one run of _import_data on the path s; the history of the model is cut
\* at MaxHist records: an import that would leave more is not taken
Apply(s, name) ==
    \E o \in {_import_data(history, s)} :
        /\ Len(o.history) <= MaxHist
        /\ history' = o.history
        /\ op' = name
        /\ src' = s
        /\ result' = [ok |-> o.ok, data |-> o.data, err |-> o.err, calls |-> o.calls]
        /\ shown' = o.shown
        /\ UNCHANGED interpreter

\* _import_data with a path that does not end in .jpg or .png, in any
\* letter case
ImportFile ==
    \E s \in Sources :
        /\ ~IsImagePath(s)
        /\ Apply(s, "file")

\* _import_data with a path that ends in .jpg or .png, in any letter case
ImportImage ==
    \E s \in Sources :
        /\ IsImagePath(s)
        /\ Apply(s, "image")

\* _import_data when the file dialog is cancelled: if not filepath: return
ImportCancelled ==
    /\ op' = "cancel"
    /\ src' = NoSource
    /\ result' = NoResult
    /\ shown' = NoShow
    /\ UNCHANGED <<history, interpreter>>

Next == ImportFile \/ ImportImage \/ ImportCancelled

Spec == Init /\ [][Next]_vars

\* conversion of one row
InitRow ==
    /\ interpreter \in Interpreters
    /\ history = <<>>
    /\ op = "row"
    /\ src \in {Source(<<>>, "json", {}, <<r>>) : r \in Rows}
    /\ result = NoResult
    /\ shown = NoShow

ProcessRow ==
    /\ op = "row"
    /\ LET r == _process_row(src.rows[1])
       IN  result' = [ok |-> r.ok, data |-> IF r.ok THEN <<r.val>> ELSE <<>>,
                      err |-> r.err, calls |-> 1]
    /\ op' = "_process_row"
    /\ UNCHANGED <<history, src, shown, interpreter>>

NextRow == ProcessRow

SpecRow == InitRow /\ [][NextRow]_vars

\* the display of one batch
InitDisplay ==
    /\ interpreter \in Interpreters
    /\ history = <<>>
    /\ op = "batch"
    /\ src = NoSource
    /\ result \in {[ok |-> TRUE, data |-> b, err |-> NoErr, calls |-> 0] : b \in Batches}
    /\ shown = NoShow

UpdateDisplay ==
    /\ op = "batch"
    /\ shown' = _update_display(result.data)
    /\ op' = "_update_display"
    /\ UNCHANGED <<history, src, result, interpreter>>

NextDisplay == UpdateDisplay

SpecDisplay == InitDisplay /\ [][NextDisplay]_vars

\* ============================================================== properties
IsPrefix(a, b) == Len(a) <= Len(b) /\ SubSeq(b, 1, Len(a)) = a
EndsWith(h, d) == Len(d) <= Len(h) /\ SubSeq(h, Len(h) - Len(d) + 1, Len(h)) = d
\* the rows a .csv or .json file hands to the conversion loop
IsCsvPath(s) == endswith(s.filepath, DotCsv)
IsJsonPath(s) == endswith(s.filepath, DotJson)
FileRows(s) == IF IsCsvPath(s) THEN DictReader(s) ELSE JsonLoad(s)
Converts(row) == _process_row(row).ok
FirstFailing(rows) ==
    CHOOSE i \in 1..Len(rows) :
        ~Converts(rows[i]) /\ \A j \in 1..(i - 1) : Converts(rows[j])
LacksRequired(row) == \E f \in required_fields : f \notin DOMAIN row
CategorySet == {categories[i] : i \in 1..Len(categories)}
Stored(b) == b.transport + b.diet + b.energy + b.waste

\* C1: for every batch import entry point (CSV file, JSON file, image), a
\* successful import of n rows leaves history equal to the previous history
\* followed by the n breakdowns in input order, and a successful import of
\* at least one row does not leave history unchanged.
C1_SuccessfulImportAppends ==
    [][(op' \in {"file", "image"} /\ result'.ok)
        => /\ Len(result'.data) = Len(src'.rows)
           /\ history' = history \o result'.data
           /\ (Len(src'.rows) > 0 => history' # history)]_vars

\* C2: when a row of a CSV or JSON file fails to convert, the import fails
\* at the first such row (no later row is converted), hands back no
\* breakdowns, and history is what it was, also when earlier rows converted.
C2_FailedBatchLeavesHistory ==
    [][(/\ op' = "file"
        /\ (IsCsvPath(src') \/ IsJsonPath(src'))
        /\ \E i \in 1..Len(FileRows(src')) : ~Converts(FileRows(src')[i]))
        => /\ ~result'.ok
           /\ result'.data = <<>>
           /\ history' = history
           /\ ~shown'.called
           /\ result'.calls \in {0, FirstFailing(FileRows(src'))}
           /\ (result'.calls # 0 =>
                 result'.err = _process_row(FileRows(src')[result'.calls]).err)]_vars

\* a failed file import whose first row converted, on a history of two or
\* more records
C2_Witness ==
    /\ op = "file"
    /\ ~result.ok
    /\ result.calls = 2
    /\ Converts(FileRows(src)[1])
    /\ Len(history) >= 2

\* C3: a JSON source with an object that lacks date, diet_type or energy_kwh
\* is rejected as invalid before any row is converted: _process_row is not
\* invoked for any object, and history is unchanged.
C3_InvalidJsonConvertsNothing ==
    [][(/\ op' \in {"file", "image"}
        /\ (IsJsonPath(src') \/ IsImagePath(src'))
        /\ src'.shape = "json"
        /\ \E i \in 1..Len(src'.rows) : LacksRequired(src'.rows[i]))
        => /\ ~result'.ok
           /\ result'.calls = 0
           /\ result'.err.msg \in {"invalid_json", "invalid_json_image"}
           /\ history' = history]_vars

\* a rejected JSON file whose first object conforms and converts
C3_Witness ==
    /\ op = "file"
    /\ IsJsonPath(src)
    /\ src.shape = "json"
    /\ Len(src.rows) = 2
    /\ ~LacksRequired(src.rows[1])
    /\ Converts(src.rows[1])
    /\ LacksRequired(src.rows[2])
    /\ result.calls = 0
    /\ ~result.ok

\* C4: history is append-only and never deduplicated: the history before
\* every operation is a prefix of the history after it, its length never
\* decreases, and every successful import of a source (CSV file, JSON file
\* or image), a repeated one included, leaves one more copy of its
\* breakdowns at the end of history, so that a source imported twice in a
\* row leaves two.
C4_HistoryAppendOnly ==
    [][/\ IsPrefix(history, history')
       /\ Len(history') >= Len(history)
       /\ (op' \in {"file", "image"} /\ result'.ok
           => /\ Len(history') = Len(history) + Len(result'.data)
              /\ EndsWith(history', result'.data))
       /\ (op \in {"file", "image"} /\ op' = op /\ src' = src /\ result.ok /\ result'.ok
           => /\ result'.data = result.data
              /\ EndsWith(history', result.data \o result.data))]_vars

\* the numeric inputs of a converted row, defaults filled in
InputOf(row, key, default) == ToFloat(Get(row, key, Num(default))).n
NumericInputs(row) ==
    {InputOf(row, "car_km", 0), InputOf(row, "bus_km", 0), InputOf(row, "meals", One),
     InputOf(row, "energy_kwh", 0), InputOf(row, "waste_kg", 0)}
\* the sum of the four category values before they are rounded, in 1/5000
UnroundedSum(row) ==
    InputOf(row, "car_km", 0) * FACTOR_car + InputOf(row, "bus_km", 0) * FACTOR_bus
    + FACTORS_diet[row["diet_type"].s] * InputOf(row, "meals", One)
    + InputOf(row, "energy_kwh", 0) * FACTOR_energy
    + InputOf(row, "waste_kg", 0) * FACTOR_waste

\* C5 as stated: the total of every converted row is the sum of its four
\* stored, already rounded category values, rounded to 2 decimal places.
C5_TotalOfStoredValues ==
    (op = "_process_row" /\ result.ok)
        => result.data[1].total = Round2(50 * Stored(result.data[1]))

\* C5 amended: the total of every converted row is the sum of the four
\* category values as computed before their own rounding, rounded to 2
\* decimal places.
C5_TotalOfUnroundedValues ==
    (op = "_process_row" /\ result.ok)
        => result.data[1].total = Round2(UnroundedSum(src.rows[1]))

\* a converted row whose total is not the sum of its stored values
C5_Witness ==
    /\ op = "_process_row"
    /\ result.ok
    /\ result.data[1].total # Stored(result.data[1])

\* C6 as stated: every breakdown that conversion produces has non-negative
\* transport, diet, energy and waste.
C6_CategoriesNonNegative ==
    (op = "_process_row" /\ result.ok)
        => \A cat \in CategorySet : result.data[1][cat] >= 0

\* C6 amended: every breakdown produced from a row whose numeric inputs
\* (car_km, bus_km, meals, energy_kwh, waste_kg, defaults included) are all
\* non-negative has non-negative transport, diet, energy and waste.
C6_NonNegativeInputsNonNegativeCategories ==
    (/\ op = "_process_row"
     /\ result.ok
     /\ \A n \in NumericInputs(src.rows[1]) : n >= 0)
        => \A cat \in CategorySet : result.data[1][cat] >= 0

\* a converted row of non-negative inputs with positive bus and car distance
C6_Witness ==
    /\ op = "_process_row"
    /\ result.ok
    /\ \A n \in NumericInputs(src.rows[1]) : n >= 0
    /\ InputOf(src.rows[1], "bus_km", 0) > 0
    /\ result.data[1].transport > 0

\* C7: the missing-field error is raised only when a mandatory key is
\* absent from the row, and names that key; an unrecognized diet_type with
\* all mandatory fields present fails with a different error.
C7_MissingFieldErrorNamesAbsentKey ==
    (op = "_process_row" /\ ~result.ok /\ result.err.msg = "missing_field")
        => /\ result.err.arg.s \in required_fields
           /\ result.err.arg.s \notin DOMAIN src.rows[1]

\* the decimal sum of one category over a batch, in hundredths
RECURSIVE DecimalSum(_, _, _)
DecimalSum(data, cat, n) ==
    IF n = 0 THEN 0 ELSE data[n][cat] + DecimalSum(data, cat, n - 1)
DecimalTotal(cat) == DecimalSum(result.data, cat, Len(result.data))
Permuted(data, p) == [i \in 1..Len(data) |-> data[p[i]]]
SuggestionsFor(cat) ==
    {i \in 1..Len(shown.advice) :
        shown.advice[i].kind = "suggest" /\ shown.advice[i].cat = cat}
SummaryLinesFor(cat) ==
    {i \in 1..Len(shown.summary) : shown.summary[i].cat = cat}
\* x > k for a double x and an int k in hundredths
Above(x, k) == x.h > k \/ (x.h = k /\ x.d > 0)
\* the four differences added as real numbers
ExactSum(m) ==
    F(m.transport.h + m.diet.h + m.energy.h + m.waste.h,
      m.transport.d + m.diet.d + m.energy.d + m.waste.d)

\* |n|
Abs(n) == IF n < 0 THEN -n ELSE n
\* |x| = MagH(x)/100 + MagD(x) * u
MagH(x) == Abs(x.h)
MagD(x) == IF x.h > 0 THEN x.d ELSE IF x.h < 0 THEN -x.d ELSE Abs(x.d)
\* the stored values of one category of a batch, as doubles
Column(data, cat) == [i \in 1..Len(data) |-> FromHundredths(data[i][cat])]
RECURSIVE SumOver(_, _, _)
SumOver(xs, g(_), n) == IF n = 0 THEN 0 ELSE g(xs[n]) + SumOver(xs, g, n - 1)
PartH(x) == x.h
PartD(x) == x.d
\* the sum of the doubles xs as a real number
ExactOf(xs) == F(SumOver(xs, PartH, Len(xs)), SumOver(xs, PartD, Len(xs)))
\* k * 2^-e * (|xs[1]| + ... + |xs[n]| + c/100) in units u, rounded down:
\* a hundredth is 2^57 units, and the d parts add less than one unit
Tolerance(k, e, xs, c) ==
    k * Pow2(57 - e) * (SumOver(xs, MagH, Len(xs)) + c)
    - (IF SumOver(xs, MagD, Len(xs)) < 0 THEN 1 ELSE 0)
\* |x - exact| <= tol, in units u
Within(x, exact, tol) == x.h = exact.h /\ Abs(x.d - exact.d) <= tol
\* a floating-point sum of the n doubles xs that is within n * 2^-53 times
\* the sum of their magnitudes of their exact sum
SumWithinRounding(x, xs) == Within(x, ExactOf(xs), Tolerance(Len(xs), 53, xs, 0))

\* C8 as stated: aggregation yields for each category the sum of that
\* category over the batch, for the empty batch too (all-zero totals, a
\* defined result), and every permutation of the batch yields the same.
C8_AggregationDefinedForEveryBatch ==
    op = "_update_display"
        => /\ shown.computed
           /\ \A cat \in CategorySet :
                 shown.category_totals[cat] = FromHundredths(DecimalTotal(cat))
           /\ \A p \in Permutations(1..Len(result.data)) :
                 \A cat \in CategorySet :
                     SumCat(Permuted(result.data, p), cat) = shown.category_totals[cat]

\* C8 amended: for a non-empty batch of n breakdowns aggregation yields for
\* each category the floating-point sum of that category over the batch as
\* the built-in sum() of the interpreter computes it: it is within
\* n * 2^-53 times the sum of the magnitudes of the category's values of
\* their exact sum, and so is the total of every permutation of the batch
\* (two orders need not give identical totals); for an empty batch
\* _update_display returns before it aggregates: no totals and no summary
\* are produced.
C8_AggregationOfNonEmptyBatch ==
    op = "_update_display"
        => /\ shown.called
           /\ shown.computed = (result.data # <<>>)
           /\ (result.data = <<>> => shown = [NoShow EXCEPT !.called = TRUE])
           /\ (result.data # <<>> =>
                 \A cat \in CategorySet :
                    /\ SumWithinRounding(shown.category_totals[cat],
                                         Column(result.data, cat))
                    /\ \A p \in Permutations(1..Len(result.data)) :
                          SumWithinRounding(SumCat(Permuted(result.data, p), cat),
                                            Column(result.data, cat)))

\* the totals of a batch of three different breakdowns whose floating-point
\* transport sum is not the double nearest to the decimal sum
C8_Witness ==
    /\ op = "_update_display"
    /\ Len(result.data) = 3
    /\ result.data[1].transport # result.data[2].transport
    /\ result.data[2].transport # result.data[3].transport
    /\ shown.computed
    /\ shown.category_totals.transport.h
           = result.data[1].transport + result.data[2].transport
             + result.data[3].transport
    /\ shown.category_totals.transport # FromHundredths(DecimalTotal("transport"))

\* C9: in the comparison output every category has exactly one summary
\* line, and a suggestion line exactly when its total, the floating-point
\* sum of line 339, is strictly above its average (transport 50, diet 40,
\* energy 30, waste 20); a category whose total equals the average is
\* reported as below it, by 0.00, with no suggestion.
C9_SuggestionIffAboveAverage ==
    (op = "_update_display" /\ shown.computed)
        => \A cat \in CategorySet :
              /\ Cardinality(SummaryLinesFor(cat)) = 1
              /\ Cardinality(SuggestionsFor(cat))
                    = (IF Above(shown.category_totals[cat], average_totals[cat])
                       THEN 1 ELSE 0)
              /\ \A i \in SummaryLinesFor(cat) :
                    /\ shown.summary[i].kind
                          = (IF Above(shown.category_totals[cat], average_totals[cat])
                             THEN "more" ELSE "less")
                    /\ shown.summary[i].amount
                          = Fmt2(F(shown.category_totals[cat].h - average_totals[cat], 0))
                    /\ (shown.category_totals[cat] = FromInt(average_totals[cat])
                          => shown.summary[i].kind = "less" /\ shown.summary[i].amount = 0)

\* transport above its average by less than the sum of its 2-decimal values
\* shows (these add up to 50.00; the uncompensated sum() is above 50),
\* diet equal to its average, energy below
C9_Witness ==
    /\ op = "_update_display"
    /\ shown.computed
    /\ DecimalTotal("transport") = average_totals.transport
    /\ Above(shown.category_totals.transport, average_totals.transport)
    /\ shown.category_totals.diet = FromInt(average_totals.diet)
    /\ Above(FromInt(average_totals.energy), shown.category_totals.energy.h)
    /\ SuggestionsFor("transport") # {}
    /\ SuggestionsFor("diet") = {}
    /\ SuggestionsFor("energy") = {}

\* C10 as stated: total_difference is the sum of the four differences; when
\* the output says "more than the world average" overall (with the advice
\* to focus on the exceeded areas) some category is reported above its
\* average with a suggestion, and when no category is above its average the
\* overall verdict is "less" with the encouragement line.
C10_OverallVerdictCoherent ==
    (op = "_update_display" /\ shown.computed)
        => LET last == shown.summary[Len(shown.summary)]
               tip == shown.advice[Len(shown.advice)]
               above == {cat \in CategorySet : SuggestionsFor(cat) # {}}
           IN  /\ shown.total_difference = ExactSum(shown.differences)
               /\ last.kind \in {"overall_more", "overall_less"}
               /\ (last.kind = "overall_more") = (tip.kind = "focus")
               /\ (last.kind = "overall_less") = (tip.kind = "great")
               /\ (last.kind = "overall_more" => above # {})
               /\ (above = {} => last.kind = "overall_less")

\* C10 amended: total_difference, the floating-point sum of the totals less
\* 140, is the sum of the four floating-point differences up to rounding
\* (within 2^-50 times the sum of the magnitudes of the four totals and
\* 140, not always equal); when the output says "more than the world
\* average" overall (with the advice to focus on the exceeded areas) some
\* category is reported above its average with a suggestion, and when no
\* category is above its average the overall verdict is "less" with the
\* encouragement line.
C10_OverallVerdictCoherentUpToRounding ==
    (op = "_update_display" /\ shown.computed)
        => LET last == shown.summary[Len(shown.summary)]
               tip == shown.advice[Len(shown.advice)]
               above == {cat \in CategorySet : SuggestionsFor(cat) # {}}
               totals == <<shown.category_totals.transport, shown.category_totals.diet,
                           shown.category_totals.energy, shown.category_totals.waste>>
           IN  /\ Within(shown.total_difference, ExactSum(shown.differences),
                         Tolerance(1, 50, totals, SumAverages))
               /\ last.kind \in {"overall_more", "overall_less"}
               /\ (last.kind = "overall_more") = (tip.kind = "focus")
               /\ (last.kind = "overall_less") = (tip.kind = "great")
               /\ (last.kind = "overall_more" => above # {})
               /\ (above = {} => last.kind = "overall_less")

\* over the average overall while some category is below its average, and
\* total_difference is not the exact sum of the differences
C10_Witness ==
    /\ op = "_update_display"
    /\ shown.computed
    /\ shown.summary[Len(shown.summary)].kind = "overall_more"
    /\ shown.advice[Len(shown.advice)].kind = "focus"
    /\ SuggestionsFor("transport") # {}
    /\ SuggestionsFor("energy") = {}
    /\ shown.total_difference # ExactSum(shown.differences)

====
